---- MODULE Spec2Model ----
(***************************************************************************)
(* Model of the Paytm payment-gateway relay of src/index.js: the three     *)
(* Express handlers create-order, callback and status, in both variants of *)
(* server.js the file holds, run by concurrent requests that suspend at    *)
(* the signature call and at the gateway call.                             *)
(***************************************************************************)
EXTENDS Integers, Sequences, FiniteSets

VARIABLES
    variant,     \* which server.js is running: 1 (lines 1-221) or 2 (lines 238-456)
    now,         \* Date.now(), in milliseconds
    req,         \* the requests, by arrival order: inputs, locals, position, responses
    orderStore   \* the orders saved in the database

vars == <<variant, now, req, orderStore>>

----------------------------------------------------------------------------
\* Bounds of the model.

MaxReq == 2      \* requests that arrive in one run
MaxClock == 2    \* last millisecond the clock reaches

Slots == 1 .. MaxReq

----------------------------------------------------------------------------
\* JavaScript values carried by request bodies and gateway replies.

Undefined == [t |-> "undefined", n |-> 0, s |-> ""]
JNum(n) == [t |-> "number", n |-> n, s |-> ""]
JStr(s) == [t |-> "string", n |-> 0, s |-> s]
\* an object whose toString property is not a function, such as {"toString": 1}
JOddObject == [t |-> "object", n |-> 0, s |-> ""]

\* ToBoolean, as used by !amount, !customerId, !orderId and if (paytmChecksum)
Truthy(v) ==
    CASE v.t = "undefined" -> FALSE
      [] v.t = "number" -> v.n # 0
      [] v.t = "string" -> v.s # ""
      [] OTHER -> TRUE

Digit(d) ==
    CASE d = 0 -> "0" [] d = 1 -> "1" [] d = 2 -> "2" [] d = 3 -> "3"
      [] d = 4 -> "4" [] d = 5 -> "5" [] d = 6 -> "6" [] d = 7 -> "7"
      [] d = 8 -> "8" [] OTHER -> "9"

RECURSIVE NatToString(_)
\* the decimal digits of a non-negative integer, as string concatenation writes it
NatToString(n) ==
    IF n < 10 THEN Digit(n) ELSE NatToString(n \div 10) \o Digit(n % 10)

\* v.toString() throws a TypeError when v.toString is not callable
ToStringThrows(v) == v.t = "object"

\* v.toString() of a number or a string
ToString(v) == IF v.t = "number" THEN NatToString(v.n) ELSE v.s

----------------------------------------------------------------------------
\* paytm.config.js

PaytmMid == "MID"
PaytmCallbackUrl == "https://merchant/api/paytm/callback"

\* "ORDER_" + Date.now() + "_" + Math.floor(Math.random() * 1000)
generateOrderId(t, rnd) ==
    "ORDER_" \o NatToString(t) \o "_" \o NatToString(rnd)

\* the integers Math.floor(Math.random() * 1000) ranges over are 0 .. RandomRange - 1
RandomRange == 1000

\* the draws the model takes: both ends of the range
RandomDraws == { 0, RandomRange - 1 }

----------------------------------------------------------------------------
\* The data of a gateway reply (axios response.data), by the structure the
\* handlers read: data, data.body, data.body.resultInfo, its resultStatus and
\* data.body.txnToken. shape "none" is a reply not received.

NoData ==
    [shape |-> "none", hasBody |-> FALSE, hasResultInfo |-> FALSE,
     resultStatus |-> Undefined, txnToken |-> Undefined]

NullData == [NoData EXCEPT !.shape = "null"]
EmptyData == [NoData EXCEPT !.shape = "object"]
BodyOnly == [EmptyData EXCEPT !.hasBody = TRUE]
Result(status, token) ==
    [shape |-> "object", hasBody |-> TRUE, hasResultInfo |-> TRUE,
     resultStatus |-> status, txnToken |-> token]

\* replies of /theia/api/v1/initiateTransaction
InitiateReplies ==
    { NullData, EmptyData, BodyOnly,
      Result(JStr("F"), Undefined),
      Result(JStr("S"), JStr("TOK1")),
      Result(JStr("S"), JStr("TOK2")),
      Result(JStr("S"), Undefined) }

\* replies of /v3/order/status
StatusReplies ==
    { NullData, EmptyData,
      Result(JStr("TXN_SUCCESS"), Undefined),
      Result(JStr("TXN_FAILURE"), Undefined),
      Result(JStr("PENDING"), Undefined),
      Result(JStr("NO_RECORD_FOUND"), Undefined) }

\* data.body, where data is not null
BodyOf(data) ==
    IF data.hasBody THEN [data EXCEPT !.shape = "body"] ELSE NoData

NoResultInfo == [present |-> FALSE, resultStatus |-> Undefined]

\* data?.body?.resultInfo
ResultInfoOf(data) ==
    IF data.shape = "object" /\ data.hasBody /\ data.hasResultInfo
    THEN [present |-> TRUE, resultStatus |-> data.resultStatus]
    ELSE NoResultInfo

----------------------------------------------------------------------------
\* Requests and responses.

NoBody ==
    [amount |-> Undefined, customerId |-> Undefined, orderId |-> Undefined,
     CHECKSUMHASH |-> Undefined]

NoPayload ==
    [requestType |-> "", mid |-> "", orderId |-> Undefined, value |-> "",
     custId |-> ""]

NoUrl == [path |-> "", mid |-> "", orderId |-> Undefined]

NewRequest ==
    [kind |-> "none", pc |-> "idle", body |-> NoBody, orderId |-> Undefined,
     signed |-> NoPayload, url |-> NoUrl, data |-> NoData,
     verify |-> "notcalled", err |-> "", responses |-> <<>>,
     sigCalls |-> 0, gwCalls |-> 0]

NoFields ==
    [code |-> 0, error |-> "", details |-> "", text |-> "", mid |-> "",
     orderId |-> Undefined, amount |-> Undefined, txnToken |-> Undefined,
     callbackUrl |-> "", status |-> Undefined, resultInfo |-> NoResultInfo,
     paytmResponse |-> NoData]

\* res.status(code).json(...) or res.send(...) followed by return
Respond(q, response) ==
    [q EXCEPT !.responses = Append(@, response), !.pc = "done"]

\* err.message
Message(err) ==
    CASE err = "TypeError" -> "Cannot read properties"
      [] err = "AxiosError" -> "Request failed"
      [] OTHER -> "signature failed"

\* the catch block of a JSON route
CatchJson(q, err, text) ==
    Respond([q EXCEPT !.err = err],
            [NoFields EXCEPT !.code = 500, !.error = text,
                             !.details = Message(err)])

\* the catch block of the callback route
CatchText(q, err) ==
    Respond([q EXCEPT !.err = err],
            [NoFields EXCEPT !.code = 500, !.text = "Internal Server Error"])

----------------------------------------------------------------------------
\* Request bodies the front-end and the gateway may send.

Amounts == { Undefined, JNum(0), JNum(100), JOddObject }
CustomerIds == { Undefined, JStr("cust1") }
OrderIds == { Undefined, JStr("ORDER_1_0") }
Checksums == { Undefined, JStr(""), JStr("c2lnbmF0dXJl") }

\* outcomes of PaytmChecksum.verifySignature
VerifyOutcomes == { "true", "false", "throws" }

----------------------------------------------------------------------------
\* 1) POST /api/paytm/create-order

CreateOrderFailed == "Something went wrong while creating order"

\* the validation message of the running variant
CreateOrderRequired ==
    IF variant = 1 THEN "amount and customerId are required"
    ELSE "amount and customerId required"

\* the payload of initiateTransaction
paytmParams(orderId, amount, customerId) ==
    [requestType |-> "Payment", mid |-> PaytmMid, orderId |-> orderId,
     value |-> ToString(amount), custId |-> ToString(customerId)]

\* createOrder whose validation branch answers 400 without returning
createOrderNoReturn(amount, customerId, t, rnd) ==
    LET q0 == [NewRequest EXCEPT !.kind = "create", !.body.amount = amount,
                                 !.body.customerId = customerId]
        orderId == JStr(generateOrderId(t, rnd))
        invalid == ~Truthy(amount) \/ ~Truthy(customerId)
        q1 == [q0 EXCEPT !.orderId = orderId,
                         !.responses =
                             IF invalid
                             THEN <<[NoFields EXCEPT !.code = 400,
                                                     !.error = CreateOrderRequired]>>
                             ELSE <<>>]
    IN  IF amount.t \in {"undefined", "object"}
           \/ customerId.t \in {"undefined", "object"}
        THEN CatchJson(q1, "TypeError", CreateOrderFailed)
        ELSE [q1 EXCEPT !.signed = paytmParams(orderId, amount, customerId),
                        !.sigCalls = @ + 1, !.pc = "awaitSig"]

\* from the start of the handler to the await of generateSignature
createOrder(amount, customerId, t, rnd) ==
    LET q0 == [NewRequest EXCEPT !.kind = "create", !.body.amount = amount,
                                 !.body.customerId = customerId]
        orderId == JStr(generateOrderId(t, rnd))
        q1 == [q0 EXCEPT !.orderId = orderId]
    IN  IF ~Truthy(amount) \/ ~Truthy(customerId)
        THEN Respond(q0, [NoFields EXCEPT !.code = 400,
                                          !.error = CreateOrderRequired])
        ELSE IF ToStringThrows(amount) \/ ToStringThrows(customerId)
        THEN CatchJson(q1, "TypeError", CreateOrderFailed)
        ELSE [q1 EXCEPT !.signed = paytmParams(orderId, amount, customerId),
                        !.sigCalls = @ + 1, !.pc = "awaitSig"]

\* from the signature to the await of axios.post
createOrderSigned(q, threw) ==
    IF threw
    THEN CatchJson(q, "SignatureError", CreateOrderFailed)
    ELSE [q EXCEPT !.url = [path |-> "/theia/api/v1/initiateTransaction",
                            mid |-> PaytmMid, orderId |-> q.orderId],
                   !.gwCalls = @ + 1, !.pc = "awaitGw"]

\* the create-order requests that generated an order id
Generated == { r \in Slots : req[r].kind = "create" /\ req[r].orderId # Undefined }

\* createOrderPayload with orderId kept in a variable of the module, which the
\* latest request to generate an order id has overwritten
createOrderPayloadShared(q, data) ==
    [NoFields EXCEPT !.code = 200, !.mid = PaytmMid,
                     !.orderId = req[CHOOSE r \in Generated :
                                        \A o \in Generated : o <= r].orderId,
                     !.amount = q.body.amount, !.txnToken = data.txnToken,
                     !.callbackUrl = PaytmCallbackUrl]

\* the success payload of create-order
createOrderPayload(q, data) ==
    [NoFields EXCEPT !.code = 200, !.mid = PaytmMid, !.orderId = q.orderId,
                     !.amount = q.body.amount, !.txnToken = data.txnToken,
                     !.callbackUrl = PaytmCallbackUrl]

\* from the gateway's reply, or the failure of the call, to the response
createOrderReplied(q, threw, data) ==
    IF threw
    THEN CatchJson(q, "AxiosError", CreateOrderFailed)
    ELSE LET q1 == [q EXCEPT !.data = data]
         IN  IF data.shape = "null"
             THEN CatchJson(q1, "TypeError", CreateOrderFailed)
             ELSE IF ~data.hasBody \/ ~data.hasResultInfo
                     \/ data.resultStatus # JStr("S")
             THEN Respond(q1, [NoFields EXCEPT
                                  !.code = 400,
                                  !.error = "Failed to initiate transaction",
                                  !.paytmResponse = data])
             ELSE Respond(q1, createOrderPayload(q1, data))

----------------------------------------------------------------------------
\* 2) POST /api/paytm/callback

\* the value isValidChecksum is declared with
isValidChecksumDefault == (variant = 1)

CallbackReceived ==
    IF variant = 1
    THEN "Paytm callback received. You can close this window and return to the app."
    ELSE "Callback received. Please wait while we verify payment."

\* isValidChecksum where the result of verifySignature is not assigned
isValidChecksumUnassigned(paytmChecksum, outcome) == isValidChecksumDefault

\* isValidChecksum after the verification
isValidChecksum(paytmChecksum, outcome) ==
    IF Truthy(paytmChecksum) THEN outcome = "true" ELSE isValidChecksumDefault

\* the whole handler
callback(paytmChecksum, outcome) ==
    LET q0 == [NewRequest EXCEPT !.kind = "callback",
                                 !.body.CHECKSUMHASH = paytmChecksum]
        q1 == [q0 EXCEPT !.verify = IF Truthy(paytmChecksum) THEN outcome
                                    ELSE "notcalled"]
    IN  IF Truthy(paytmChecksum) /\ outcome = "throws"
        THEN CatchText(q1, "Error")
        ELSE IF ~isValidChecksum(paytmChecksum, outcome)
        THEN Respond(q1, [NoFields EXCEPT !.code = 400,
                                          !.text = "Checksum mismatched"])
        ELSE Respond(q1, [NoFields EXCEPT !.code = 200,
                                          !.text = CallbackReceived])

----------------------------------------------------------------------------
\* 3) POST /api/paytm/status

StatusFailed == "Something went wrong while checking status"

StatusRequired ==
    IF variant = 1 THEN "orderId is required" ELSE "orderId required"

\* status without the check of orderId
statusUnchecked(orderId) ==
    [NewRequest EXCEPT !.kind = "status", !.body.orderId = orderId,
                       !.orderId = orderId,
                       !.signed = [NoPayload EXCEPT !.mid = PaytmMid,
                                                    !.orderId = orderId],
                       !.sigCalls = @ + 1, !.pc = "awaitSig"]

\* from the start of the handler to the await of generateSignature
status(orderId) ==
    LET q0 == [NewRequest EXCEPT !.kind = "status", !.body.orderId = orderId]
    IN  IF ~Truthy(orderId)
        THEN Respond(q0, [NoFields EXCEPT !.code = 400,
                                          !.error = StatusRequired])
        ELSE [q0 EXCEPT !.orderId = orderId,
                        !.signed = [NoPayload EXCEPT !.mid = PaytmMid,
                                                     !.orderId = orderId],
                        !.sigCalls = @ + 1, !.pc = "awaitSig"]

\* from the signature to the await of axios.post
statusSigned(q, threw) ==
    IF threw
    THEN CatchJson(q, "SignatureError", StatusFailed)
    ELSE [q EXCEPT !.url = [NoUrl EXCEPT !.path = "/v3/order/status"],
                   !.gwCalls = @ + 1, !.pc = "awaitGw"]

\* resultInfo?.resultStatus, returned as the status of the order
txnStatus(data) == ResultInfoOf(data).resultStatus

\* from the gateway's reply, or the failure of the call, to the response
statusReplied(q, threw, data) ==
    IF threw
    THEN CatchJson(q, "AxiosError", StatusFailed)
    ELSE LET q1 == [q EXCEPT !.data = data]
         IN  IF data.shape = "null"
             THEN CatchJson(q1, "TypeError", StatusFailed)
             ELSE Respond(q1, [NoFields EXCEPT
                                  !.code = 200, !.orderId = q.orderId,
                                  !.status = txnStatus(data),
                                  !.resultInfo = ResultInfoOf(data),
                                  !.paytmResponse = BodyOf(data)])

----------------------------------------------------------------------------
\* The state machine.

Init ==
    /\ variant \in {1, 2}
    /\ now = 1
    /\ req = [r \in Slots |-> NewRequest]
    /\ orderStore = {}

\* requests are numbered in the order they arrive
Arrives(r) ==
    /\ req[r].kind = "none"
    /\ r > 1 => req[r - 1].kind # "none"

\* the clock advances by a millisecond; once the last request has arrived no
\* handler reads it again
Tick ==
    /\ now < MaxClock
    /\ req[MaxReq].kind = "none"
    /\ now' = now + 1
    /\ UNCHANGED <<variant, req, orderStore>>

ReceiveCreateOrder(r) ==
    /\ Arrives(r)
    /\ \E amount \in Amounts, customerId \in CustomerIds, rnd \in RandomDraws :
          req' = [req EXCEPT ![r] = createOrder(amount, customerId, now, rnd)]
    /\ UNCHANGED <<variant, now, orderStore>>

CreateOrderSigned(r) ==
    /\ req[r].kind = "create" /\ req[r].pc = "awaitSig"
    /\ \E threw \in BOOLEAN :
          req' = [req EXCEPT ![r] = createOrderSigned(req[r], threw)]
    /\ UNCHANGED <<variant, now, orderStore>>

CreateOrderReplied(r) ==
    /\ req[r].kind = "create" /\ req[r].pc = "awaitGw"
    /\ \E threw \in BOOLEAN, data \in InitiateReplies :
          req' = [req EXCEPT ![r] = createOrderReplied(req[r], threw, data)]
    /\ UNCHANGED <<variant, now, orderStore>>

ReceiveCallback(r) ==
    /\ Arrives(r)
    /\ \E paytmChecksum \in Checksums, outcome \in VerifyOutcomes :
          req' = [req EXCEPT ![r] = callback(paytmChecksum, outcome)]
    /\ UNCHANGED <<variant, now, orderStore>>

ReceiveStatus(r) ==
    /\ Arrives(r)
    /\ \E orderId \in OrderIds :
          req' = [req EXCEPT ![r] = status(orderId)]
    /\ UNCHANGED <<variant, now, orderStore>>

StatusSigned(r) ==
    /\ req[r].kind = "status" /\ req[r].pc = "awaitSig"
    /\ \E threw \in BOOLEAN :
          req' = [req EXCEPT ![r] = statusSigned(req[r], threw)]
    /\ UNCHANGED <<variant, now, orderStore>>

StatusReplied(r) ==
    /\ req[r].kind = "status" /\ req[r].pc = "awaitGw"
    /\ \E threw \in BOOLEAN, data \in StatusReplies :
          req' = [req EXCEPT ![r] = statusReplied(req[r], threw, data)]
    /\ UNCHANGED <<variant, now, orderStore>>

Next ==
    \/ Tick
    \/ \E r \in Slots :
          \/ ReceiveCreateOrder(r)
          \/ CreateOrderSigned(r)
          \/ CreateOrderReplied(r)
          \/ ReceiveCallback(r)
          \/ ReceiveStatus(r)
          \/ StatusSigned(r)
          \/ StatusReplied(r)

Spec == Init /\ [][Next]_vars

----------------------------------------------------------------------------
\* Properties of the relay.

Done(r) == req[r].pc = "done"
Answer(r) == req[r].responses[1]
Answered(r, kind, code) ==
    /\ req[r].kind = kind
    /\ Done(r)
    /\ Len(req[r].responses) = 1
    /\ Answer(r).code = code

ChecksumMismatched == [NoFields EXCEPT !.code = 400, !.text = "Checksum mismatched"]

\* C1: create-order never answers the 200 success payload without a txnToken.
C1_SuccessCarriesToken ==
    \A r \in Slots :
        Answered(r, "create", 200) => Truthy(Answer(r).txnToken)

\* C2: a callback without a CHECKSUMHASH, or with an empty one, is answered
\* 400 "Checksum mismatched" in every variant.
C2_MissingChecksumRejected ==
    \A r \in Slots :
        (req[r].kind = "callback" /\ ~Truthy(req[r].body.CHECKSUMHASH))
            => req[r].responses = <<ChecksumMismatched>>

\* a request whose required input is missing or falsy
BadInput(r) ==
    \/ /\ req[r].kind = "create"
       /\ ~Truthy(req[r].body.amount) \/ ~Truthy(req[r].body.customerId)
    \/ /\ req[r].kind = "status"
       /\ ~Truthy(req[r].body.orderId)

\* C3: create-order without amount or customerId and status without orderId
\* answer 400, and the request makes no signature call and no gateway call.
C3_BadRequestCallsNothing ==
    \A r \in Slots :
        BadInput(r) =>
            /\ Answered(r, req[r].kind, 400)
            /\ req[r].sigCalls = 0
            /\ req[r].gwCalls = 0

\* a rejected create-order and a rejected status, beside each other
C3_Witness ==
    \E r1, r2 \in Slots :
        /\ req[r1].kind = "create" /\ BadInput(r1) /\ Done(r1)
        /\ req[r1].body.amount = JNum(0)
        /\ req[r2].kind = "status" /\ BadInput(r2) /\ Done(r2)

\* the local status a gateway code stands for
Normalized(code) ==
    CASE code = JStr("TXN_SUCCESS") -> JStr("SUCCESS")
      [] code = JStr("TXN_FAILURE") -> JStr("FAILED")
      [] code = JStr("PENDING") -> JStr("PENDING")
      [] OTHER -> JStr("UNKNOWN")

\* C4: for every gateway reply, status answers 200 with a status of the local
\* enumeration: TXN_SUCCESS as SUCCESS, TXN_FAILURE as FAILED, an unknown or
\* absent code as UNKNOWN.
C4_StatusNormalized ==
    \A r \in Slots :
        (req[r].kind = "status" /\ Done(r) /\ req[r].data.shape # "none") =>
            /\ Answered(r, "status", 200)
            /\ Answer(r).status = Normalized(txnStatus(req[r].data))

\* C5: when create-order answers a token, the order store holds the order
\* with the request's amount and customer, PENDING.
C5_TokenOnlyForSavedOrder ==
    \A r \in Slots :
        Answered(r, "create", 200) =>
            [orderId |-> Answer(r).orderId, amount |-> req[r].body.amount,
             customerId |-> req[r].body.customerId, status |-> "PENDING"]
                \in orderStore

\* C6: past validation, create-order answers 400 with the raw reply to every
\* reply that is not resultStatus "S", the null reply included, and answers
\* 500 only when the signature call or the gateway call fails.
C6_RejectedIs400 ==
    \A r \in Slots :
        (req[r].kind = "create" /\ Done(r) /\ ~BadInput(r)) =>
            /\ (/\ req[r].data.shape # "none"
                /\ txnStatus(req[r].data) # JStr("S"))
                  => /\ Answered(r, "create", 400)
                     /\ Answer(r).paytmResponse = req[r].data
            /\ Answered(r, "create", 500)
                  => req[r].err \in {"SignatureError", "AxiosError"}

\* C7: a callback whose verification fails is answered 400 "Checksum
\* mismatched", and no callback changes the order store.
C7_CallbackLeavesOrders ==
    [][\A r \in Slots :
          (req[r].kind = "none" /\ req'[r].kind = "callback") =>
              /\ orderStore' = orderStore
              /\ req'[r].verify = "false"
                    => req'[r].responses = <<ChecksumMismatched>>]_vars

\* a callback whose signature did not verify
C7_Witness ==
    \E r \in Slots :
        /\ req[r].kind = "callback"
        /\ req[r].verify = "false"
        /\ Done(r)

\* C8: two create-order requests that pass validation have different order
\* ids.
C8_OrderIdsDistinct ==
    \A r1, r2 \in Generated :
        r1 # r2 => req[r1].orderId # req[r2].orderId

\* C9: every handler ends with exactly one response, of status 200, 400 or
\* 500, and answers nothing before it ends.
C9_ExactlyOneResponse ==
    \A r \in Slots :
        /\ req[r].pc \in {"idle", "awaitSig", "awaitGw", "done"}
        /\ req[r].kind # "none" => req[r].pc # "idle"
        /\ Done(r) => /\ Len(req[r].responses) = 1
                      /\ Answer(r).code \in {200, 400, 500}
        /\ ~Done(r) => req[r].responses = <<>>

\* a request answered 500 after its gateway call failed, beside one answered 200
C9_Witness ==
    \E r1, r2 \in Slots :
        /\ Done(r1) /\ req[r1].err = "AxiosError" /\ Answer(r1).code = 500
        /\ Done(r2) /\ Answer(r2).code = 200

\* C10: a response is built from its own request and its own gateway reply:
\* create-order answers the order id it signed and put in the URL, the amount
\* it was sent and the token of its reply; status answers the order id it
\* was sent.
C10_OwnRequestOwnReply ==
    \A r \in Slots :
        /\ (req[r].kind = "create" /\ req[r].pc = "awaitGw")
              => req[r].url.orderId = req[r].signed.orderId
        /\ Answered(r, "create", 200) =>
              /\ Answer(r).orderId = req[r].signed.orderId
              /\ Answer(r).orderId = req[r].url.orderId
              /\ Answer(r).amount = req[r].body.amount
              /\ Answer(r).txnToken = req[r].data.txnToken
        /\ Answered(r, "status", 200) =>
              /\ Answer(r).orderId = req[r].body.orderId
              /\ req[r].signed.orderId = req[r].body.orderId

\* two create-order requests answered with different order ids and tokens
C10_Witness ==
    \E r1, r2 \in Slots :
        /\ Answered(r1, "create", 200) /\ Answered(r2, "create", 200)
        /\ Answer(r1).orderId # Answer(r2).orderId
        /\ Answer(r1).txnToken = JStr("TOK1")
        /\ Answer(r2).txnToken = JStr("TOK2")

====
